---- MODULE Spec2Model ----
(***************************************************************************)
(* ntfscloneimgdelta: delta generation and patch application between       *)
(* ntfsclone special images (src/ntfscloneimgdelta.c).                     *)
(*                                                                         *)
(* One run of the tool is a sequential program: prepare_image_files, the   *)
(* counted main loop, the tail step, finish_image_files.  The input files  *)
(* are read strictly sequentially, so an input file is modelled by the     *)
(* records read from it so far (img.fd); what it holds next is chosen when *)
(* read_all asks for it.  A file written by an earlier run (the delta that *)
(* create_delta wrote, the OLD image read again) has its content fixed.    *)
(* A cluster payload (csize bytes) is one abstract value; the value 0 is   *)
(* the all-zero cluster that memset leaves in cdata.                       *)
(***************************************************************************)
EXTENDS Integers, Sequences, FiniteSets, TLC

(* ------------------------------ bounds -------------------------------- *)
MaxClusters == 2
MaxEvents == 4

(* ----------------------- constants of the program --------------------- *)
CMD_SKIP == 0
CMD_DATA == 1
CMD_DROP == 2
CMD_OTHER == 3
IMAGE_MAGIC == "ntfsclone-image"
DELTA_MAGIC == "ntfsclone-delta"
OTHER_MAGIC == "other-magic"
NTFSCLONE_IMG_VER_MAJOR == 10
NTFSCLONE_IMG_VER_MINOR_OLD == 0
NTFSCLONE_IMG_VER_MINOR_NEW == 1
SIZEOF_IMAGE_HDR == 50

NoErr == "none"
ErrEof == "read: unexpected end of file"
ErrMagic == "Input file doesn't have the expected magic header field!"
ErrVersion == "Image version not supported"
ErrZeroRepeat == "Zero repeat length after command code in image"
ErrInvalidCmd == "Invalid command code in image"
ErrHeaders == "Input images do not have identical headers"
ErrFirstRemaining == "First input image has remaining unused clusters at the end"
ErrSecondRemaining == "Second input image has remaining unused clusters at the end"
ErrSegv == "killed: memcmp read outside hdr_extra"

(* --------------------------- input domains ---------------------------- *)
Payloads == {0, 1}
ClusterSizes == {512, 4096}
DeviceSizes == {8192, 16384}
InuseCounts == {1, 2}
MajorVersions == {NTFSCLONE_IMG_VER_MAJOR, 11}
MinorVersions == {NTFSCLONE_IMG_VER_MINOR_OLD, NTFSCLONE_IMG_VER_MINOR_NEW, 2}
Magics == {IMAGE_MAGIC, DELTA_MAGIC, OTHER_MAGIC}
Extras == {<<>>, <<7>>, <<8>>, <<7, 8>>}
(* an NTFS volume has at least one cluster (the boot sector's) *)
NrClusters == 1..MaxClusters
(* the stored repeat count: zero, runs that fit, and runs that reach past *)
(* the last cluster (a negative count is read as a run of one cluster:    *)
(* cmd_repeat > 0 is false after it, as after a count of 1)               *)
RepeatVals == 0..(MaxClusters + 1)

(* struct image_hdr as it lies in a file, with the extra metadata block    *)
(* that follows it; offset_to_image_data - sizeof(hdr) is the block length *)
FileHdr(magic, major, minor, csize, dsize, nr, inuse, extra) ==
  [magic |-> magic, major_ver |-> major, minor_ver |-> minor,
   cluster_size |-> csize, device_size |-> dsize, nr_clusters |-> nr,
   inuse |-> inuse, offset_to_image_data |-> SIZEOF_IMAGE_HDR + Len(extra),
   extra |-> extra]

(* a file that ends inside its header *)
TruncatedHdr == FileHdr("", 0, 0, 0, 0, 0, 0, <<>>)

FileHdrs ==
  { FileHdr(m, ma, mi, cs, ds, nr, iu, ex) :
      m \in Magics, ma \in MajorVersions, mi \in MinorVersions,
      cs \in ClusterSizes, ds \in DeviceSizes, nr \in NrClusters,
      iu \in InuseCounts, ex \in Extras }

HdrFields == {"magic", "major_ver", "cluster_size", "device_size",
              "nr_clusters", "inuse", "extra"}

Deviation(h, g) == Cardinality({f \in HdrFields : h[f] # g[f]})

(* a record of a command stream: a run (skip/drop + repeat count), a data  *)
(* record (payload), any other tag byte, or the end of the file            *)
Rec(cmd, repeat, data) == [cmd |-> cmd, repeat |-> repeat, data |-> data]
EofRec == Rec(-1, 0, 0)
NoRec == Rec(-2, 0, 0)
RunRecs(cmd) == { Rec(cmd, r, 0) : r \in RepeatVals }
DataRecs == { Rec(CMD_DATA, 0, d) : d \in Payloads }

(* a decoded cluster event *)
Ev(cmd, data) == [cmd |-> cmd, data |-> data]

(* ------------------------------- state -------------------------------- *)
VARIABLES
  mode,     \* argv[1]: "delta" (create_delta) or "patch" (apply_patch)
  run,      \* 1: the tool's first run; 2: apply_patch run on run 1's delta
  pc,       \* "start", "loop", "finish", "done" (return 0), "fatal" (exit 1)
  err,      \* the message err_exit printed, NoErr if none
  pos,      \* the main loop's counter
  ccount,   \* the local ccount of create_delta / apply_patch
  file1,    \* first input file: fixed content, or read as it comes
  file2,    \* second input file
  img1,     \* struct input_image of the first input
  img2,     \* struct input_image of the second input
  img3,     \* struct output_image, with what was written to its fd
  ev1,      \* history: events read_next_cluster decoded from the first input
  ev2,      \* history: events decoded from the second input
  emitted,  \* history: events given to write_cmd / write_data
  unread,   \* at return: whether input i still holds unread records
  orig      \* run 2: the NEW image and the outcome of run 1

vars == <<mode, run, pc, err, pos, ccount, file1, file2, img1, img2, img3,
          ev1, ev2, emitted, unread, orig>>

(* ------------------------------ headers ------------------------------- *)
(* The headers an input file is given.  Images of more than one cluster  *)
(* come with the plain header, differing at most in the minor version;    *)
(* one-cluster images also come with one field of the header varied, and  *)
(* the second input's header with one field different from the first's.   *)
BadFields(h) ==
  {f \in {"magic", "major_ver", "minor_ver"} :
     \/ (f = "magic" /\ h.magic # IMAGE_MAGIC)
     \/ (f = "major_ver" /\ h.major_ver # NTFSCLONE_IMG_VER_MAJOR)
     \/ (f = "minor_ver" /\ h.minor_ver = 2)}

Hdrs1 ==
  { h \in FileHdrs :
      /\ h.cluster_size = 512 /\ h.device_size = 8192 /\ h.inuse = 1
      /\ h.extra \in {<<>>, <<7>>}
      /\ Cardinality(BadFields(h)) <= 1
      /\ (h.nr_clusters > 1 => h.extra = <<7>> /\ BadFields(h) = {}) }

Hdrs2(h1, magic) ==
  { h \in FileHdrs :
      /\ Deviation(h, [h1 EXCEPT !.magic = magic]) <= 1
      /\ (h.minor_ver = 2 \/ h1.nr_clusters > 1
            => Deviation(h, [h1 EXCEPT !.magic = magic]) = 0) }

LazyFile == [fixed |-> FALSE, hdr |-> <<>>, recs |-> <<>>]
FixedFile(h, recs) == [fixed |-> TRUE, hdr |-> <<h>>, recs |-> recs]

HdrChoices(file, lazy) ==
  IF file.fixed THEN {file.hdr[1]} ELSE lazy \cup {TruncatedHdr}

(* struct input_image after the memset to zero in open_input_image *)
ZeroInputImage ==
  [fd |-> <<>>, hdr |-> <<>>, hdr_extra |-> <<>>, hdr_extra_len |-> 0,
   csize |-> 0, ccount |-> 0, bbs_present |-> 0,
   cmd |-> 0, cmd_repeat |-> 0, cdata |-> 0]

ZeroOutputImage ==
  [fd |-> [hdr |-> <<>>, recs |-> <<>>], cmd |-> 0, cmd_repeat |-> 0]

(* open_input_image: h is the header the file holds *)
OpenInputImage(h, magic) ==
  LET img == [ZeroInputImage EXCEPT !.hdr = <<h>>] IN
  IF h = TruncatedHdr
  THEN [img |-> ZeroInputImage, err |-> ErrEof]
  ELSE IF h.magic # magic
  THEN [img |-> img, err |-> ErrMagic]
  ELSE IF \/ h.major_ver # NTFSCLONE_IMG_VER_MAJOR
          \/ (h.minor_ver # NTFSCLONE_IMG_VER_MINOR_OLD
              /\ h.minor_ver # NTFSCLONE_IMG_VER_MINOR_NEW)
  THEN [img |-> img, err |-> ErrVersion]
  ELSE [img |-> [img EXCEPT
                   !.hdr_extra_len = h.offset_to_image_data - SIZEOF_IMAGE_HDR,
                   !.hdr_extra = h.extra,
                   !.csize = h.cluster_size,
                   !.ccount = h.nr_clusters,
                   !.bbs_present =
                      IF h.minor_ver = NTFSCLONE_IMG_VER_MINOR_NEW THEN 1 ELSE 0],
        err |-> NoErr]

(* mutant: the memcmp stops short of device_size *)
MutFixedHdrEqual_NoDeviceSize(h1, h2) ==
  /\ h1.cluster_size = h2.cluster_size
  /\ h1.nr_clusters = h2.nr_clusters

(* the first memcmp of prepare_image_files: the 20 bytes from cluster_size *)
(* up to, not including, inuse                                            *)
FixedHdrEqual(h1, h2) ==
  /\ h1.cluster_size = h2.cluster_size
  /\ h1.device_size = h2.device_size
  /\ h1.nr_clusters = h2.nr_clusters

(* the second test: memcmp of hdr_extra over img1's length.  When img2's   *)
(* block is shorter the read runs outside img2's buffer (NULL when empty): *)
(* undefined, any outcome                                                  *)
ExtraCmpOutcomes(i1, i2) ==
  IF i1.hdr_extra_len = 0 THEN {"same"}
  ELSE IF i2.hdr_extra_len >= i1.hdr_extra_len
  THEN { IF SubSeq(i2.hdr_extra, 1, i1.hdr_extra_len) = i1.hdr_extra
         THEN "same" ELSE "differ" }
  ELSE {"same", "differ", "segv"}

(* create_output_image: the magic, then sizeof(hdr) - IMAGE_MAGIC_SIZE     *)
(* bytes from old_img's major_ver on, then old_img's hdr_extra             *)
CreateOutputImage(magic, old_img) ==
  [fd |-> [hdr |-> << [old_img.hdr[1] EXCEPT
                         !.magic = magic,
                         !.extra = IF old_img.hdr_extra_len # 0
                                   THEN old_img.hdr_extra ELSE <<>>] >>,
           recs |-> <<>>],
   cmd |-> CMD_DATA, cmd_repeat |-> 0]

(* mutant: the output header copied from the first input *)
MutTemplateImage_FirstInput(i1, i2) == i1

(* which input create_output_image is given as old_img (line 298) *)
TemplateImage(i1, i2) == i2

Magic1(m) == IMAGE_MAGIC
Magic2(m) == IF m = "delta" THEN IMAGE_MAGIC ELSE DELTA_MAGIC
Magic3(m) == IF m = "delta" THEN DELTA_MAGIC ELSE IMAGE_MAGIC

(* ------------------------------- reader ------------------------------- *)
(* mutant: the stored count taken as the number of clusters that follow   *)
(* the first one, so that a run of stored count r gives r + 1 events      *)
MutReadNextCluster_NoDecrement(img, allow_drop_cmd, rec) ==
  IF img.cmd_repeat > 0
  THEN [img |-> [img EXCEPT !.cmd_repeat = @ - 1], err |-> NoErr]
  ELSE IF rec = EofRec
  THEN [img |-> img, err |-> ErrEof]
  ELSE LET i == [img EXCEPT !.cmd = rec.cmd, !.fd = Append(@, rec)] IN
       IF rec.cmd = CMD_SKIP \/ (allow_drop_cmd /\ rec.cmd = CMD_DROP)
       THEN IF rec.repeat = 0
            THEN [img |-> [i EXCEPT !.cmd_repeat = rec.repeat],
                  err |-> ErrZeroRepeat]
            ELSE [img |-> [i EXCEPT !.cmd_repeat = rec.repeat],
                  err |-> NoErr]
       ELSE IF rec.cmd = CMD_DATA
       THEN [img |-> [i EXCEPT !.cdata = rec.data], err |-> NoErr]
       ELSE [img |-> i, err |-> ErrInvalidCmd]

(* read_next_cluster; rec is what the file holds at the read position     *)
ReadNextCluster(img, allow_drop_cmd, rec) ==
  IF img.cmd_repeat > 0
  THEN [img |-> [img EXCEPT !.cmd_repeat = @ - 1], err |-> NoErr]
  ELSE IF rec = EofRec
  THEN [img |-> img, err |-> ErrEof]
  ELSE LET i == [img EXCEPT !.cmd = rec.cmd, !.fd = Append(@, rec)] IN
       IF rec.cmd = CMD_SKIP \/ (allow_drop_cmd /\ rec.cmd = CMD_DROP)
       THEN IF rec.repeat = 0
            THEN [img |-> [i EXCEPT !.cmd_repeat = rec.repeat],
                  err |-> ErrZeroRepeat]
            ELSE [img |-> [i EXCEPT !.cmd_repeat = rec.repeat - 1],
                  err |-> NoErr]
       ELSE IF rec.cmd = CMD_DATA
       THEN [img |-> [i EXCEPT !.cdata = rec.data], err |-> NoErr]
       ELSE [img |-> i, err |-> ErrInvalidCmd]

(* what read_all can find at the read position of img's file; where drop  *)
(* is not allowed the count after a drop tag is never read, and the       *)
(* record stands for the tag alone                                        *)
RecChoices(file, img, allow_drop_cmd) ==
  IF img.cmd_repeat > 0 THEN {NoRec}
  ELSE IF file.fixed
  THEN { IF Len(img.fd) < Len(file.recs)
         THEN file.recs[Len(img.fd) + 1] ELSE EofRec }
  ELSE RunRecs(CMD_SKIP)
       \cup (IF allow_drop_cmd THEN RunRecs(CMD_DROP)
                               ELSE {Rec(CMD_DROP, 0, 0)})
       \cup DataRecs \cup {Rec(CMD_OTHER, 0, 0), EofRec}

(* the event the caller sees in img after read_next_cluster returned *)
EvOf(img) == Ev(img.cmd, IF img.cmd = CMD_DATA THEN img.cdata ELSE 0)

(* ------------------------------- writer ------------------------------- *)
(* mutant: the count written is the run length minus one *)
MutWritePendingCmd_CountMinusOne(img) ==
  IF img.cmd # CMD_DATA
  THEN [img EXCEPT !.fd.recs = Append(@, Rec(img.cmd, img.cmd_repeat - 1, 0)),
                   !.cmd = CMD_DATA, !.cmd_repeat = 0]
  ELSE img

(* write_pending_cmd *)
WritePendingCmd(img) ==
  IF img.cmd # CMD_DATA
  THEN [img EXCEPT !.fd.recs = Append(@, Rec(img.cmd, img.cmd_repeat, 0)),
                   !.cmd = CMD_DATA, !.cmd_repeat = 0]
  ELSE img

(* mutant: every skip/drop event starts a run of its own *)
MutWriteCmd_NoCoalesce(img, cmd) ==
  [WritePendingCmd(img) EXCEPT !.cmd = cmd, !.cmd_repeat = 1]

(* write_cmd *)
WriteCmd(img, cmd) ==
  IF img.cmd = cmd
  THEN [img EXCEPT !.cmd_repeat = @ + 1]
  ELSE [WritePendingCmd(img) EXCEPT !.cmd = cmd, !.cmd_repeat = 1]

(* mutant: the data record written before the pending run is flushed *)
MutWriteData_DataBeforePending(img, cdata) ==
  LET p == WritePendingCmd(img) IN
  [p EXCEPT !.fd.recs =
     Append(img.fd.recs, Rec(CMD_DATA, 0, cdata))
       \o SubSeq(p.fd.recs, Len(img.fd.recs) + 1, Len(p.fd.recs))]

(* write_data; the tag byte written is img->cmd, CMD_DATA after the flush *)
WriteData(img, cdata) ==
  LET p == WritePendingCmd(img) IN
  [p EXCEPT !.fd.recs = Append(@, Rec(p.cmd, 0, cdata))]

(* ------------------------------ policies ------------------------------ *)
(* mutant: a cluster that became unallocated is written as unchanged *)
MutDeltaPolicy_SkipForDrop(old, new) ==
  IF old.cmd = new.cmd /\ (old.cmd = CMD_SKIP \/ old.cdata = new.cdata)
  THEN Ev(CMD_SKIP, 0)
  ELSE IF new.cmd = CMD_SKIP
  THEN Ev(CMD_SKIP, 0)
  ELSE Ev(CMD_DATA, new.cdata)

(* mutant: the changed cluster written from the buffer of OLD *)
MutDeltaPolicy_OldPayload(old, new) ==
  IF old.cmd = new.cmd /\ (old.cmd = CMD_SKIP \/ old.cdata = new.cdata)
  THEN Ev(CMD_SKIP, 0)
  ELSE IF new.cmd = CMD_SKIP
  THEN Ev(CMD_DROP, 0)
  ELSE Ev(CMD_DATA, old.cdata)

(* create_delta, lines 331-336: the event written for one position *)
DeltaPolicy(old, new) ==
  IF old.cmd = new.cmd /\ (old.cmd = CMD_SKIP \/ old.cdata = new.cdata)
  THEN Ev(CMD_SKIP, 0)
  ELSE IF new.cmd = CMD_SKIP
  THEN Ev(CMD_DROP, 0)
  ELSE Ev(CMD_DATA, new.cdata)

(* mutant: skip in the delta leaves the cluster unallocated *)
MutPatchPolicy_SkipUnallocated(old, delta) ==
  IF delta.cmd = CMD_DROP \/ delta.cmd = CMD_SKIP
  THEN Ev(CMD_SKIP, 0)
  ELSE Ev(CMD_DATA, delta.cdata)

(* apply_patch, lines 369-374 *)
PatchPolicy(old, delta) ==
  IF delta.cmd = CMD_DROP \/ (old.cmd = CMD_SKIP /\ delta.cmd = CMD_SKIP)
  THEN Ev(CMD_SKIP, 0)
  ELSE IF delta.cmd = CMD_SKIP
  THEN Ev(CMD_DATA, old.cdata)
  ELSE Ev(CMD_DATA, delta.cdata)

(* write_cmd for a skip/drop event, write_data for a data event *)
Emit(img, e) ==
  IF e.cmd = CMD_DATA THEN WriteData(img, e.data) ELSE WriteCmd(img, e.cmd)

(* ------------------------------ actions ------------------------------- *)
Init ==
  /\ mode \in {"delta", "patch"}
  /\ run = 1
  /\ pc = "start"
  /\ err = NoErr
  /\ pos = 0
  /\ ccount = 0
  /\ file1 = LazyFile
  /\ file2 = LazyFile
  /\ img1 = ZeroInputImage
  /\ img2 = ZeroInputImage
  /\ img3 = ZeroOutputImage
  /\ ev1 = <<>>
  /\ ev2 = <<>>
  /\ emitted = <<>>
  /\ unread = <<FALSE, FALSE>>
  /\ orig = <<>>

(* prepare_image_files, then the ccount computation of the caller *)
PrepareImageFiles ==
  /\ pc = "start"
  /\ \E h1 \in HdrChoices(file1, Hdrs1) :
       LET o1 == OpenInputImage(h1, Magic1(mode)) IN
       IF o1.err # NoErr
       THEN /\ pc' = "fatal" /\ err' = o1.err /\ img1' = o1.img
            /\ UNCHANGED <<img2, img3, ccount>>
       ELSE \E h2 \in HdrChoices(file2, Hdrs2(h1, Magic2(mode))) :
            LET o2 == OpenInputImage(h2, Magic2(mode)) IN
            IF o2.err # NoErr
            THEN /\ pc' = "fatal" /\ err' = o2.err
                 /\ img1' = o1.img /\ img2' = o2.img
                 /\ UNCHANGED <<img3, ccount>>
            ELSE \E x \in ExtraCmpOutcomes(o1.img, o2.img) :
                 /\ img1' = o1.img /\ img2' = o2.img
                 /\ IF ~FixedHdrEqual(h1, h2) \/ x = "differ"
                    THEN /\ pc' = "fatal" /\ err' = ErrHeaders
                         /\ UNCHANGED <<img3, ccount>>
                    ELSE IF x = "segv"
                    THEN /\ pc' = "fatal" /\ err' = ErrSegv
                         /\ UNCHANGED <<img3, ccount>>
                    ELSE /\ pc' = "loop" /\ err' = NoErr
                         /\ img3' = CreateOutputImage(Magic3(mode),
                                        TemplateImage(o1.img, o2.img))
                         /\ ccount' = IF o1.img.bbs_present = 1
                                         /\ o2.img.bbs_present = 1
                                      THEN o1.img.ccount + 1
                                      ELSE o1.img.ccount
  /\ UNCHANGED <<mode, run, pos, file1, file2, ev1, ev2, emitted, unread, orig>>

(* the bound of the main loop: ccount in create_delta (line 326),         *)
(* old.ccount in apply_patch (line 364)                                   *)
LoopBound(m, cc, old) == IF m = "delta" THEN cc ELSE old.ccount

(* the per-position policy of the running mode *)
Policy(m, a, b) == IF m = "delta" THEN DeltaPolicy(a, b) ELSE PatchPolicy(a, b)

(* one iteration of the main loop of create_delta / apply_patch *)
MainLoop ==
  /\ pc = "loop"
  /\ pos < LoopBound(mode, ccount, img1)
  /\ \E r1 \in RecChoices(file1, img1, FALSE) :
       LET a == ReadNextCluster(img1, FALSE, r1) IN
       IF a.err # NoErr
       THEN /\ pc' = "fatal" /\ err' = a.err /\ img1' = a.img
            /\ UNCHANGED <<img2, img3, ev1, ev2, emitted, pos>>
       ELSE \E r2 \in RecChoices(file2, img2, mode = "patch") :
            LET b == ReadNextCluster(img2, mode = "patch", r2) IN
            IF b.err # NoErr
            THEN /\ pc' = "fatal" /\ err' = b.err
                 /\ img1' = a.img /\ img2' = b.img
                 /\ ev1' = Append(ev1, EvOf(a.img))
                 /\ UNCHANGED <<img3, ev2, emitted, pos>>
            ELSE LET e == Policy(mode, a.img, b.img) IN
                 /\ pc' = "loop" /\ err' = NoErr
                 /\ img1' = a.img /\ img2' = b.img
                 /\ ev1' = Append(ev1, EvOf(a.img))
                 /\ ev2' = Append(ev2, EvOf(b.img))
                 /\ img3' = Emit(img3, e)
                 /\ emitted' = Append(emitted, e)
                 /\ pos' = pos + 1
  /\ UNCHANGED <<mode, run, ccount, file1, file2, unread, orig>>

(* the step after the main loop, lines 339-347 and 377-385 *)
TailStep ==
  /\ pc = "loop"
  /\ ~(pos < LoopBound(mode, ccount, img1))
  /\ IF img1.bbs_present = 1 /\ img2.bbs_present = 0
     THEN \E r1 \in RecChoices(file1, img1, FALSE) :
          LET a == ReadNextCluster(img1, FALSE, r1) IN
          /\ img1' = a.img
          /\ err' = a.err
          /\ pc' = IF a.err # NoErr THEN "fatal" ELSE "finish"
          /\ ev1' = IF a.err # NoErr THEN ev1 ELSE Append(ev1, EvOf(a.img))
          /\ UNCHANGED <<img2, img3, ev2, emitted>>
     ELSE IF img1.bbs_present = 0 /\ img2.bbs_present = 1
     THEN \E r2 \in RecChoices(file2, img2, FALSE) :
          LET b == ReadNextCluster(img2, FALSE, r2) IN
          /\ img2' = b.img
          /\ err' = b.err
          /\ pc' = IF b.err # NoErr THEN "fatal" ELSE "finish"
          /\ ev2' = IF b.err # NoErr THEN ev2 ELSE Append(ev2, EvOf(b.img))
          /\ img3' = IF b.err # NoErr THEN img3
                     ELSE WriteData(img3, b.img.cdata)
          /\ emitted' = IF b.err # NoErr THEN emitted
                        ELSE Append(emitted, Ev(CMD_DATA, b.img.cdata))
          /\ UNCHANGED <<img1, ev1>>
     ELSE /\ pc' = "finish"
          /\ UNCHANGED <<err, img1, img2, img3, ev1, ev2, emitted>>
  /\ UNCHANGED <<mode, run, pos, ccount, file1, file2, unread, orig>>

(* whether the file of img holds records after the read position *)
UnreadChoices(file, img) ==
  IF file.fixed THEN {Len(img.fd) < Len(file.recs)} ELSE BOOLEAN

(* mutant: the writer is flushed before the readers are checked *)
MutFinishImageFiles_FlushBeforeChecks ==
  /\ pc = "finish"
  /\ img3' = WritePendingCmd(img3)
  /\ IF img1.cmd_repeat > 0
     THEN /\ pc' = "fatal" /\ err' = ErrFirstRemaining
          /\ UNCHANGED unread
     ELSE IF img2.cmd_repeat > 0
     THEN /\ pc' = "fatal" /\ err' = ErrSecondRemaining
          /\ UNCHANGED unread
     ELSE /\ pc' = "done" /\ err' = NoErr
          /\ \E u1 \in UnreadChoices(file1, img1),
                u2 \in UnreadChoices(file2, img2) : unread' = <<u1, u2>>
  /\ UNCHANGED <<mode, run, pos, ccount, file1, file2, img1, img2,
                 ev1, ev2, emitted, orig>>

(* finish_image_files, and the return to main *)
FinishImageFiles ==
  /\ pc = "finish"
  /\ IF img1.cmd_repeat > 0
     THEN /\ pc' = "fatal" /\ err' = ErrFirstRemaining
          /\ UNCHANGED <<img3, unread>>
     ELSE IF img2.cmd_repeat > 0
     THEN /\ pc' = "fatal" /\ err' = ErrSecondRemaining
          /\ UNCHANGED <<img3, unread>>
     ELSE /\ pc' = "done" /\ err' = NoErr
          /\ img3' = WritePendingCmd(img3)
          /\ \E u1 \in UnreadChoices(file1, img1),
                u2 \in UnreadChoices(file2, img2) : unread' = <<u1, u2>>
  /\ UNCHANGED <<mode, run, pos, ccount, file1, file2, img1, img2,
                 ev1, ev2, emitted, orig>>

(* the file an input image was read from, as far as it was read *)
FileRead(img) == FixedFile(img.hdr[1], img.fd)

(* the file written through an output image *)
FileWritten(img) == FixedFile(img.fd.hdr[1], img.fd.recs)

(* the tool run again: ntfscloneimgdelta patch OLD DELTA NEW, on the OLD  *)
(* image of a finished delta run and the delta file that run wrote        *)
RunPatchOnDelta ==
  /\ pc = "done" /\ mode = "delta" /\ run = 1
  /\ mode' = "patch" /\ run' = 2 /\ pc' = "start" /\ err' = NoErr
  /\ pos' = 0 /\ ccount' = 0
  /\ file1' = FileRead(img1)
  /\ file2' = FileWritten(img3)
  /\ img1' = ZeroInputImage /\ img2' = ZeroInputImage
  /\ img3' = ZeroOutputImage
  /\ ev1' = <<>> /\ ev2' = <<>> /\ emitted' = <<>>
  /\ unread' = <<FALSE, FALSE>>
  /\ orig' = << [old |-> img1, new |-> img2, oldev |-> ev1, newev |-> ev2,
                 delta |-> emitted, unread |-> unread] >>

Next ==
  \/ PrepareImageFiles
  \/ MainLoop
  \/ TailStep
  \/ FinishImageFiles
  \/ RunPatchOnDelta

Spec == Init /\ [][Next]_vars

(* --------------------- the codec, writer to reader -------------------- *)
(* Events are given to the writer one at a time (write_cmd, write_data),  *)
(* the writer is finished (write_pending_cmd, fsync), and the records it  *)
(* wrote are read back with read_next_cluster, drop allowed.              *)
PlainHdr ==
  FileHdr(DELTA_MAGIC, NTFSCLONE_IMG_VER_MAJOR, NTFSCLONE_IMG_VER_MINOR_OLD,
          512, 8192, 1, 1, <<>>)

CodecEvents ==
  {Ev(CMD_SKIP, 0), Ev(CMD_DROP, 0)} \cup {Ev(CMD_DATA, d) : d \in Payloads}

InitCodec ==
  /\ mode = "codec"
  /\ run = 1
  /\ pc = "write"
  /\ err = NoErr
  /\ pos = 0
  /\ ccount = 0
  /\ file1 = LazyFile
  /\ file2 = LazyFile
  /\ img1 = ZeroInputImage
  /\ img2 = ZeroInputImage
  /\ img3 = CreateOutputImage(DELTA_MAGIC,
                              OpenInputImage(PlainHdr, DELTA_MAGIC).img)
  /\ ev1 = <<>>
  /\ ev2 = <<>>
  /\ emitted = <<>>
  /\ unread = <<FALSE, FALSE>>
  /\ orig = <<>>

CodecWrite ==
  /\ pc = "write"
  /\ Len(emitted) < MaxEvents
  /\ \E e \in CodecEvents :
       /\ img3' = Emit(img3, e)
       /\ emitted' = Append(emitted, e)
  /\ UNCHANGED <<mode, run, pc, err, pos, ccount, file1, file2, img1, img2,
                 ev1, ev2, unread, orig>>

CodecFinish ==
  /\ pc = "write"
  /\ img3' = WritePendingCmd(img3)
  /\ file2' = FileWritten(img3')
  /\ img2' = OpenInputImage(img3.fd.hdr[1], DELTA_MAGIC).img
  /\ pc' = "read"
  /\ UNCHANGED <<mode, run, err, pos, ccount, file1, img1, ev1, ev2, emitted,
                 unread, orig>>

(* the reader has returned every cluster of the file *)
ReadDone == img2.cmd_repeat = 0 /\ Len(img2.fd) = Len(file2.recs)

CodecRead ==
  /\ pc = "read"
  /\ ~ReadDone
  /\ \E r \in RecChoices(file2, img2, TRUE) :
       LET b == ReadNextCluster(img2, TRUE, r) IN
       /\ img2' = b.img
       /\ err' = b.err
       /\ pc' = IF b.err # NoErr THEN "fatal" ELSE "read"
       /\ ev2' = IF b.err # NoErr THEN ev2 ELSE Append(ev2, EvOf(b.img))
  /\ UNCHANGED <<mode, run, pos, ccount, file1, file2, img1, img3, ev1,
                 emitted, unread, orig>>

NextCodec ==
  \/ CodecWrite
  \/ CodecFinish
  \/ CodecRead

SpecCodec == InitCodec /\ [][NextCodec]_vars

(* ======================= helpers of the properties ==================== *)
(* the events read_next_cluster returns for the records recs, read from   *)
(* the reader state img; an unreadable record ends the list with Ev(-1,0) *)
RECURSIVE DecodeFrom(_, _, _)
DecodeFrom(img, allow_drop_cmd, recs) ==
  IF img.cmd_repeat > 0
  THEN LET a == ReadNextCluster(img, allow_drop_cmd, NoRec) IN
       <<EvOf(a.img)>> \o DecodeFrom(a.img, allow_drop_cmd, recs)
  ELSE IF recs = <<>> THEN <<>>
  ELSE LET a == ReadNextCluster(img, allow_drop_cmd, Head(recs)) IN
       IF a.err # NoErr THEN <<Ev(-1, 0)>>
       ELSE <<EvOf(a.img)>> \o DecodeFrom(a.img, allow_drop_cmd, Tail(recs))

Decode(allow_drop_cmd, recs) == DecodeFrom(ZeroInputImage, allow_drop_cmd, recs)

Opened(img) == img.hdr # <<>> /\ img.csize # 0
Created == img3.fd.hdr # <<>>
IsRun(r) == r.cmd \in {CMD_SKIP, CMD_DROP}
Repeated(e, n) == [k \in 1..n |-> e]
Last(q) == q[Len(q)]

(* run 1 was create_delta(OLD, NEW) on well-formed images: headers equal  *)
(* but for the minor version, each stream ending where its header says,   *)
(* the trailing sector of an image that has one stored as a data cluster  *)
WellFormedRun1 ==
  /\ run = 2
  /\ LET o == orig[1] IN
     /\ o.unread = <<FALSE, FALSE>>
     /\ o.old.hdr[1] = [o.new.hdr[1] EXCEPT !.minor_ver = o.old.hdr[1].minor_ver]
     /\ (o.old.bbs_present = 1 => Last(o.oldev).cmd = CMD_DATA)
     /\ (o.new.bbs_present = 1 => Last(o.newev).cmd = CMD_DATA)

(* the image apply_patch wrote is the image NEW of run 1 *)
OutputIsNew ==
  /\ img3.fd.hdr = orig[1].new.hdr
  /\ Decode(FALSE, img3.fd.recs) = orig[1].newev

(* ============================== claims ================================ *)

(* C1: round trip.  For well-formed OLD and NEW with identical headers,   *)
(* apply_patch(OLD, create_delta(OLD, NEW)) ends without a fatal error    *)
(* and writes an image with NEW's header and NEW's cluster events, for    *)
(* every combination of the trailing-sector flags.                        *)
C1_RoundTrip ==
  (run = 2 /\ WellFormedRun1) =>
     /\ pc # "fatal"
     /\ (pc = "done" => OutputIsNew)

(* C2: drop semantics.  Where OLD has data and NEW has skip create_delta  *)
(* emits drop; where apply_patch reads drop from DELTA at a position of   *)
(* OLD it emits skip, whatever OLD's event is.                            *)
C2_DropSemantics ==
  \A k \in 1..Len(emitted) :
     /\ (mode = "delta" /\ k <= Len(ev1) /\ k <= Len(ev2)
           /\ ev1[k].cmd = CMD_DATA /\ ev2[k].cmd = CMD_SKIP)
          => emitted[k] = Ev(CMD_DROP, 0)
     /\ (mode = "patch" /\ k <= Len(ev1) /\ k <= Len(ev2)
           /\ ev2[k].cmd = CMD_DROP)
          => emitted[k] = Ev(CMD_SKIP, 0)

C2_Witness ==
  /\ run = 2 /\ pc = "done"
  /\ \E k \in 1..Len(emitted) :
       /\ k <= Len(orig[1].delta) /\ k <= Len(ev1)
       /\ orig[1].oldev[k].cmd = CMD_DATA
       /\ orig[1].newev[k].cmd = CMD_SKIP
       /\ orig[1].delta[k].cmd = CMD_DROP
       /\ ev1[k].cmd = CMD_DATA
       /\ ev2[k].cmd = CMD_DROP
       /\ emitted[k].cmd = CMD_SKIP

(* C3: identity delta.  create_delta(X, X) writes exactly one record, a   *)
(* skip run whose length is X's cluster count, plus one when X has the    *)
(* trailing sector.                                                       *)
SameInputs == img1.hdr = img2.hdr /\ img1.fd = img2.fd

C3_IdentityDelta ==
  (mode = "delta" /\ run = 1 /\ pc = "done" /\ SameInputs) =>
     img3.fd.recs = << Rec(CMD_SKIP, img1.ccount + img1.bbs_present, 0) >>

C3_Witness ==
  /\ mode = "delta" /\ run = 1 /\ pc = "done" /\ SameInputs
  /\ img1.ccount = MaxClusters /\ img1.bbs_present = 1
  /\ \E k \in 1..Len(ev1) : ev1[k].cmd = CMD_DATA
  /\ img3.fd.recs = << Rec(CMD_SKIP, MaxClusters + 1, 0) >>

(* C4: run-length inverse law.  n >= 1 events of one non-data tag given   *)
(* to the writer and flushed are read back as exactly those n events, and *)
(* the reader is then left with pending repeat count 0.                   *)
HomogeneousRun ==
  /\ Len(emitted) >= 1
  /\ emitted[1].cmd # CMD_DATA
  /\ emitted = Repeated(emitted[1], Len(emitted))

C4_RunLengthInverse ==
  (HomogeneousRun /\ pc # "write") =>
     /\ pc = "read"
     /\ Len(ev2) <= Len(emitted)
     /\ ev2 = SubSeq(emitted, 1, Len(ev2))
     /\ (ReadDone <=> ev2 = emitted)

C4_Witness ==
  /\ pc = "read" /\ ReadDone
  /\ emitted = Repeated(Ev(CMD_DROP, 0), MaxEvents)
  /\ ev2 = emitted
  /\ img2.cmd_repeat = 0

(* C5: zero-length runs.  No run record the writer wrote stores the       *)
(* repeat count 0, a pending skip/drop run counts at least 1 cluster, and *)
(* a reader that read a skip or drop record storing 0 has ended fatally.  *)
ReadZeroRun(img) ==
  img.fd # <<>> /\ IsRun(Last(img.fd)) /\ Last(img.fd).repeat = 0

C5_NoZeroLengthRun ==
  /\ \A k \in 1..Len(img3.fd.recs) :
        IsRun(img3.fd.recs[k]) => img3.fd.recs[k].repeat >= 1
  /\ (Created /\ img3.cmd # CMD_DATA) => img3.cmd_repeat >= 1
  /\ (ReadZeroRun(img1) \/ ReadZeroRun(img2)) =>
        (pc = "fatal" /\ err \in {ErrZeroRepeat, ErrInvalidCmd})
  /\ \A img \in {img1, img2} :
        (ReadZeroRun(img) /\ Last(img.fd).cmd = CMD_SKIP) => err = ErrZeroRepeat

C5_Witness ==
  /\ mode = "patch" /\ pc = "fatal" /\ err = ErrZeroRepeat
  /\ ReadZeroRun(img2) /\ Last(img2.fd).cmd = CMD_DROP
  /\ img3.cmd = CMD_SKIP /\ img3.cmd_repeat >= 1

(* C6: tail-flag matrix.  After the main loop and the tail step each      *)
(* input has been read for total_cluster_count events, plus one iff it    *)
(* has the trailing sector: inside the main loop when both have it, as    *)
(* an extra read that is discarded when only the first has it, as an      *)
(* extra read that is written as data when only the second has it.        *)
AfterTail == pc \in {"finish", "done"}

C6_TailFlagMatrix ==
  AfterTail =>
     /\ Len(ev1) = img1.ccount + img1.bbs_present
     /\ Len(ev2) = img1.ccount + img2.bbs_present
     /\ (img1.bbs_present = 1 /\ img2.bbs_present = 1)
          => (pos = img1.ccount + 1 /\ Len(emitted) = img1.ccount + 1)
     /\ (img1.bbs_present = 1 /\ img2.bbs_present = 0)
          => (pos = img1.ccount /\ Len(emitted) = img1.ccount)
     /\ (img1.bbs_present = 0 /\ img2.bbs_present = 1)
          => (pos = img1.ccount /\ Len(emitted) = img1.ccount + 1
              /\ Last(emitted).cmd = CMD_DATA)

(* C7: header mismatch rejection.  Two inputs that differ in cluster      *)
(* size, cluster count or extra metadata (blocks of different lengths     *)
(* included) end the run before any cluster is read and before anything   *)
(* is written to the output.                                              *)
BothOpened == Opened(img1) /\ Opened(img2)

C7_HeaderMismatchRejected ==
  (/\ BothOpened
   /\ \/ img1.hdr[1].cluster_size # img2.hdr[1].cluster_size
      \/ img1.hdr[1].nr_clusters # img2.hdr[1].nr_clusters
      \/ img1.hdr[1].extra # img2.hdr[1].extra)
  => /\ pc = "fatal"
     /\ err \in {ErrHeaders, ErrSegv}
     /\ img1.fd = <<>> /\ img2.fd = <<>>
     /\ ~Created

(* C8 as stated: two inputs that differ only in the in-use cluster count  *)
(* are rejected.                                                          *)
DifferOnlyInInuse ==
  /\ BothOpened
  /\ img1.hdr[1].inuse # img2.hdr[1].inuse
  /\ [img1.hdr[1] EXCEPT !.inuse = 0, !.magic = ""]
       = [img2.hdr[1] EXCEPT !.inuse = 0, !.magic = ""]

ExtraDiffersWithin ==
  /\ img1.hdr_extra_len > 0
  /\ img2.hdr_extra_len >= img1.hdr_extra_len
  /\ SubSeq(img2.hdr_extra, 1, img1.hdr_extra_len) # img1.hdr_extra

C9_ExhaustionCheck ==
  /\ (pc = "done" /\ mode = "delta") => unread = <<FALSE, FALSE>>
  /\ (pc = "fatal" /\ BothOpened) => err # ErrEof

(* C10 as stated: the output header is the given magic followed by the    *)
(* fields and metadata of the NEW input when generating, of the OLD input *)
(* when applying.                                                         *)
C10_TemplateOldOnApply ==
  Created =>
     img3.fd.hdr[1] = [(IF mode = "delta" THEN img2 ELSE img1).hdr[1]
                          EXCEPT !.magic = Magic3(mode)]

(* C10, amended: the output header is the given magic followed by every   *)
(* other field and the metadata block of the second input: the NEW image  *)
(* when generating, the DELTA file when applying.                         *)
C10_OutputHeader ==
  Created =>
     /\ img3.fd.hdr[1] = [img2.hdr[1] EXCEPT !.magic = Magic3(mode)]
     /\ img2.hdr[1].magic = (IF mode = "delta" THEN IMAGE_MAGIC ELSE DELTA_MAGIC)

C10_Witness ==
  /\ mode = "patch" /\ run = 2 /\ pc = "done"
  /\ img1.hdr[1].minor_ver # img2.hdr[1].minor_ver
  /\ img3.fd.hdr[1].minor_ver = img2.hdr[1].minor_ver
  /\ img3.fd.hdr[1].magic = IMAGE_MAGIC

(* the events of the writer's pending run, not yet in the file *)
Pending(img) ==
  IF img.cmd # CMD_DATA THEN Repeated(Ev(img.cmd, 0), img.cmd_repeat) ELSE <<>>

(* C11: output self-consistency.  When create_delta or apply_patch has    *)
(* returned, the stream it wrote decodes, as an input of its kind, to     *)
(* exactly nr_clusters events of the header it wrote, plus one iff that   *)
(* header has the new-format minor version.                               *)
C11_OutputSelfConsistent ==
  (pc = "done" /\ mode \in {"delta", "patch"}) =>
     LET h == img3.fd.hdr[1]
         d == Decode(mode = "delta", img3.fd.recs) IN
     /\ \A k \in 1..Len(d) : d[k].cmd # -1
     /\ Len(d) = h.nr_clusters
                 + (IF h.minor_ver = NTFSCLONE_IMG_VER_MINOR_NEW THEN 1 ELSE 0)

(* C12: delta generator policy.  At every main-loop position of           *)
(* create_delta the event written is skip iff OLD and NEW are both skip   *)
(* or both data with equal payloads, drop iff NEW is skip and OLD is      *)
(* data, and otherwise data with the payload NEW has at that position.    *)
MainLoopPositions == 1..pos

C12_DeltaPolicy ==
  mode = "delta" =>
    \A k \in MainLoopPositions :
       LET o == ev1[k]  n == ev2[k]  e == emitted[k]
           unchanged == \/ (o.cmd = CMD_SKIP /\ n.cmd = CMD_SKIP)
                        \/ (o.cmd = CMD_DATA /\ n.cmd = CMD_DATA
                            /\ o.data = n.data)
           dropped == n.cmd = CMD_SKIP /\ o.cmd = CMD_DATA IN
       /\ (e.cmd = CMD_SKIP <=> unchanged)
       /\ (e.cmd = CMD_DROP <=> dropped)
       /\ (~unchanged /\ ~dropped) => (n.cmd = CMD_DATA /\ e = n)

C12_Witness ==
  /\ mode = "delta" /\ pc = "done" /\ pos >= 2
  /\ ev1[1] = Ev(CMD_DATA, 1) /\ ev2[1] = Ev(CMD_DATA, 0)
  /\ emitted[1] = Ev(CMD_DATA, 0)
  /\ ev1[2] = Ev(CMD_DATA, 0) /\ ev2[2] = Ev(CMD_DATA, 1)
  /\ emitted[2] = Ev(CMD_DATA, 1)

(* C13: patch applier policy.  At every main-loop position of apply_patch *)
(* the event written is skip iff DELTA is drop or OLD and DELTA are both  *)
(* skip; it is data with OLD's payload of that position when DELTA is     *)
(* skip and OLD is data, and data with DELTA's payload when DELTA is data *)
C13_PatchPolicy ==
  mode = "patch" =>
    \A k \in MainLoopPositions :
       LET o == ev1[k]  d == ev2[k]  e == emitted[k] IN
       /\ (e.cmd = CMD_SKIP <=>
             (d.cmd = CMD_DROP \/ (o.cmd = CMD_SKIP /\ d.cmd = CMD_SKIP)))
       /\ (d.cmd = CMD_SKIP /\ o.cmd = CMD_DATA) => e = o
       /\ (d.cmd = CMD_DATA) => e = d
       /\ e.cmd \in {CMD_SKIP, CMD_DATA}

C13_Witness ==
  /\ mode = "patch" /\ pc = "done" /\ pos >= 2
  /\ ev1[1] = Ev(CMD_DATA, 0) /\ ev2[1] = Ev(CMD_DATA, 1)
  /\ emitted[1] = Ev(CMD_DATA, 1)
  /\ ev1[2] = Ev(CMD_DATA, 1) /\ ev2[2] = Ev(CMD_SKIP, 0)
  /\ emitted[2] = Ev(CMD_DATA, 1)
  /\ img2.cdata = 1 /\ img1.cdata = 1

(* C14: finalization ordering.  A reader left with a pending repeat count *)
(* ends the run fatally, the first input checked before the second, and   *)
(* the writer's pending run stays unwritten; otherwise the pending run,   *)
(* a 1-cluster run included, is written exactly once, and after a         *)
(* successful finish the writer holds no pending run.                     *)
PendingRunKept ==
  /\ Decode(TRUE, img3.fd.recs) \o Pending(img3) = emitted
  /\ (emitted # <<>> /\ Last(emitted).cmd # CMD_DATA)
        => (img3.cmd = Last(emitted).cmd /\ img3.cmd_repeat >= 1)

C14_FinalizationOrder ==
  /\ err = ErrFirstRemaining
        => (pc = "fatal" /\ img1.cmd_repeat > 0 /\ PendingRunKept)
  /\ err = ErrSecondRemaining
        => (pc = "fatal" /\ img1.cmd_repeat = 0 /\ img2.cmd_repeat > 0
            /\ PendingRunKept)
  /\ pc = "done"
        => (/\ img1.cmd_repeat = 0 /\ img2.cmd_repeat = 0
            /\ img3.cmd = CMD_DATA /\ img3.cmd_repeat = 0
            /\ Decode(TRUE, img3.fd.recs) = emitted)

C14_Witness ==
  /\ pc = "fatal" /\ err = ErrFirstRemaining
  /\ img1.cmd_repeat > 0 /\ img2.cmd_repeat > 0
  /\ img3.cmd = CMD_DROP /\ img3.cmd_repeat >= 1
  /\ Len(Decode(TRUE, img3.fd.recs)) < Len(emitted)

(* C15: run coalescing.  A skip or drop event with the writer's pending   *)
(* tag writes nothing and adds one to the pending count: the file has one *)
(* run record for each maximal run of equal non-data events given to the  *)
(* writer (the last one pending until it is flushed), and never two       *)
(* adjacent run records of the same tag.                                  *)
RunStarts(q) ==
  {k \in 1..Len(q) : q[k].cmd # CMD_DATA /\ (k = 1 \/ q[k - 1].cmd # q[k].cmd)}

RunRecords(recs) == {k \in 1..Len(recs) : IsRun(recs[k])}

C15_RunCoalescing ==
  LET recs == img3.fd.recs IN
  /\ \A k \in 1..(Len(recs) - 1) :
        (IsRun(recs[k]) /\ IsRun(recs[k + 1])) => recs[k].cmd # recs[k + 1].cmd
  /\ Cardinality(RunRecords(recs)) + (IF img3.cmd # CMD_DATA THEN 1 ELSE 0)
        = Cardinality(RunStarts(emitted))
  /\ (img3.cmd # CMD_DATA /\ recs # <<>>) => Last(recs).cmd # img3.cmd
  /\ Decode(TRUE, recs) \o Pending(img3) = emitted

C15_Witness ==
  /\ pc = "read"
  /\ emitted = <<Ev(CMD_SKIP, 0), Ev(CMD_SKIP, 0), Ev(CMD_DROP, 0), Ev(CMD_DROP, 0)>>
  /\ img3.fd.recs = <<Rec(CMD_SKIP, 2, 0), Rec(CMD_DROP, 2, 0)>>

(* C16: order-preserving codec.  Any sequence of skip, drop and data      *)
(* events given to the writer and finished is read back, drop allowed, as *)
(* the same tags and payloads in the same order; a data event is in the   *)
(* file as a record of its own as soon as it is given, after the run that *)
(* was pending before it.                                                 *)
C16_OrderPreserved ==
  /\ pc # "fatal"
  /\ pc = "read" =>
        /\ Len(ev2) <= Len(emitted)
        /\ ev2 = SubSeq(emitted, 1, Len(ev2))
        /\ (ReadDone <=> ev2 = emitted)
  /\ (pc = "write" /\ emitted # <<>> /\ Last(emitted).cmd = CMD_DATA) =>
        /\ img3.fd.recs # <<>>
        /\ Last(img3.fd.recs) = Rec(CMD_DATA, 0, Last(emitted).data)
        /\ img3.cmd = CMD_DATA /\ img3.cmd_repeat = 0
        /\ Decode(TRUE, img3.fd.recs) = emitted

C16_Witness ==
  /\ pc = "read" /\ ReadDone
  /\ emitted = <<Ev(CMD_SKIP, 0), Ev(CMD_DATA, 1), Ev(CMD_DROP, 0), Ev(CMD_DATA, 0)>>
  /\ ev2 = emitted
  /\ Len(img3.fd.recs) = 4

(* the cluster events of the records recs when a run record of stored     *)
(* count r stands for r + more events of its tag                          *)
RECURSIVE Expand(_, _)
Expand(recs, more) ==
  IF recs = <<>> THEN <<>>
  ELSE LET r == Head(recs) IN
       (IF IsRun(r) THEN Repeated(Ev(r.cmd, 0), r.repeat + more)
                    ELSE <<Ev(r.cmd, r.data)>>)
         \o Expand(Tail(recs), more)

(* no read of a record has failed *)
ReadsOk == err \notin {ErrEof, ErrZeroRepeat, ErrInvalidCmd}

(* the events a reader has returned are the first events of the expansion *)
(* of the records it has read, all of them but the pending cmd_repeat     *)
ExpandedBy(img, ev, more) ==
  LET x == Expand(img.fd, more) IN
  /\ img.cmd_repeat <= Len(x)
  /\ ev = SubSeq(x, 1, Len(x) - img.cmd_repeat)

(* C17 as stated: a run record of stored count r >= 1 has been expanded   *)
(* into r + 1 events of its tag when the reader asks for the next record. *)
C17_RunExpansionPlusOne ==
  ReadsOk =>
     /\ img1.cmd_repeat = 0 => ev1 = Expand(img1.fd, 1)
     /\ img2.cmd_repeat = 0 => ev2 = Expand(img2.fd, 1)

(* C17, amended: a run record of stored count r >= 1 is expanded into     *)
(* exactly r events of its tag, the one of the read that took the record  *)
(* and r - 1 more counted down in cmd_repeat, before the reader asks for  *)
(* the next record.                                                       *)
C17_RunExpansion ==
  ReadsOk =>
     /\ ExpandedBy(img1, ev1, 0)
     /\ ExpandedBy(img2, ev2, 0)

C17_Witness ==
  /\ ReadsOk /\ pc = "done"
  /\ img1.fd = <<Rec(CMD_SKIP, 2, 0), Rec(CMD_DATA, 0, 1)>>
  /\ ev1 = <<Ev(CMD_SKIP, 0), Ev(CMD_SKIP, 0), Ev(CMD_DATA, 1)>>
  /\ img1.cmd_repeat = 0

(* C18: drop acceptance by reader role.  A drop tag read from a base      *)
(* image (first input; second input of create_delta) ends the run with    *)
(* the invalid-command error and no event for that cluster; every read of *)
(* the DELTA stream in apply_patch, the tail read included, takes a drop  *)
(* tag as a run.                                                          *)
ReadDrop(img) == img.fd # <<>> /\ Last(img.fd).cmd = CMD_DROP

(* the last record read from the first input has a tag no base image has: *)
(* the run ended in that read                                             *)
EndedInFirst == img1.fd # <<>> /\ Last(img1.fd).cmd \notin {CMD_SKIP, CMD_DATA}

C18_DropByReaderRole ==
  /\ ReadDrop(img1) =>
        (pc = "fatal" /\ err = ErrInvalidCmd /\ Len(emitted) = Len(ev1))
  /\ (mode = "delta" /\ ReadDrop(img2)) =>
        (pc = "fatal" /\ err = ErrInvalidCmd /\ Len(emitted) = Len(ev2))
  /\ (mode = "patch" /\ ReadDrop(img2) /\ ~EndedInFirst) => err # ErrInvalidCmd

====
